---- MODULE Spec2Model ----
(***************************************************************************)
(* Model of generate_raw_port_stockpile_events (src/generate_data.py), the *)
(* constrained generator of the port stockpile ledger.                     *)
(*                                                                         *)
(* Tonnages are integers (tonnes).  Dates are day numbers counted from     *)
(* RANGE_START; an event_time is a number of minutes since RANGE_START     *)
(* 00:00.  The calendar is compressed: the outage and drawdown windows keep *)
(* their order and nesting, not their lengths.  The numpy random stream is *)
(* not computed: every draw is a choice from a finite set of values the    *)
(* distribution can return, and the variable stream fixes, for one run,    *)
(* which draws vary.                                                       *)
(***************************************************************************)
EXTENDS Integers, Sequences, FiniteSets, TLC

VARIABLES
    stream,             \* class of the seeded np.random stream
    pc,                 \* position in generate_raw_port_stockpile_events
    rows,               \* the ledger, in emission order
    event_seq,
    running_inventory,
    mm62_pilbara_net,
    cumulative,
    d,                  \* current day of the enclosing loop
    k,                  \* index of the current (site, prod) in the loop order
    current_inventory,
    n_events,
    rail_in_total,
    ship_load_total,
    rail_events,
    ship_events,
    rail_tonnes,
    ship_tonnes,
    key_shipments,
    i,                  \* index of the innermost loop
    adjustment_net,
    n_extra

vars == <<stream, pc, rows, event_seq, running_inventory, mm62_pilbara_net,
          cumulative, d, k, current_inventory, n_events, rail_in_total,
          ship_load_total, rail_events, ship_events, rail_tonnes, ship_tonnes,
          key_shipments, i, adjustment_net, n_extra>>

locals == <<current_inventory, n_events, rail_in_total, ship_load_total,
            rail_events, ship_events, rail_tonnes, ship_tonnes, key_shipments,
            i, adjustment_net, n_extra>>

----------------------------------------------------------------------------
(* Bounds of the model *)

\* number of calendar days of ALL_DATES that are modelled
NumDays == 5

----------------------------------------------------------------------------
(* Module-level constants of generate_data.py *)

MINUTES_PER_DAY == 1440

RANGE_START == 0
RANGE_END == RANGE_START + NumDays - 1
ALL_DATES == RANGE_START .. RANGE_END

OUTAGE_START == 1
OUTAGE_END == 4
INVENTORY_DIP_START == 2
INVENTORY_DIP_END == 3

PRODUCTS == <<"MM62", "MM58", "MM65", "Other">>
PORT_SITES == <<"Pilbara Port", "Secondary Port">>

FOCAL == <<"Pilbara Port", "MM62">>

STARTING_INVENTORY ==
    << <<"Pilbara Port", "MM62">>, <<"Pilbara Port", "MM58">>,
       <<"Pilbara Port", "MM65">>, <<"Pilbara Port", "Other">>,
       <<"Secondary Port", "MM62">>, <<"Secondary Port", "MM58">>,
       <<"Secondary Port", "MM65">>, <<"Secondary Port", "Other">> >>

StartInv(key) ==
    CASE key = <<"Pilbara Port", "MM62">> -> 850000
      [] key = <<"Pilbara Port", "MM58">> -> 300000
      [] key = <<"Pilbara Port", "MM65">> -> 150000
      [] key = <<"Pilbara Port", "Other">> -> 80000
      [] key = <<"Secondary Port", "MM62">> -> 200000
      [] key = <<"Secondary Port", "MM58">> -> 100000
      [] key = <<"Secondary Port", "MM65">> -> 50000
      [] key = <<"Secondary Port", "Other">> -> 30000

MIN_INVENTORY_BUFFER == 10000

KEY_SHIPMENTS == <<"SHIP-DRAGON-23", "SHIP-NIPPON-11", "SHIP-EURO-07">>

None == "None"

\* The (site, prod) pairs of the run: the pairs of STARTING_INVENTORY that are
\* modelled, in the order of the table (which is the order of the nested
\* loops over PORT_SITES and PRODUCTS).
ModelledKeys == {<<"Pilbara Port", "MM62">>, <<"Secondary Port", "Other">>}
InModel(key) == key \in ModelledKeys
Pairs == SelectSeq(STARTING_INVENTORY, InModel)
NPairs == Len(Pairs)
Keys == {Pairs[n] : n \in 1..NPairs}

----------------------------------------------------------------------------
(* Arithmetic helpers *)

Max(a, b) == IF a >= b THEN a ELSE b

----------------------------------------------------------------------------
(* The random stream.  Each operator below is the finite set of values one  *)
(* np.random call of the generator may return in a run of the given class.  *)

StreamClasses == {"totals", "times", "tags", "extras", "net", "focal"}

\* np.random.randint(8, 25): the event-count hint
NEventsDraws(s) == IF s = "counts" THEN 8..24 ELSE {8}

\* np.random.uniform(0.4, 0.7), in percent
FractionDraws(s) == IF s = "counts" THEN 40..70 ELSE {70}

\* np.random.normal(0, 10_000): the baseline oscillation of the MM62 net
NetNoiseDraws(s) == IF s = "net" THEN {-30000, 0, 30000} ELSE {0}

\* np.random.normal(0, 8_000): the noise on the MM62 Pilbara rail-in total
RailNoiseDraws(s) ==
    CASE s = "net" -> {-8000}
      [] s = "focal" -> {8000}
      [] OTHER -> {0}

\* np.random.normal(40_000, 8_000): rail-in of the other combinations
RailDraws(s) ==
    CASE s = "totals" -> {8000, 40000}
      [] s \in {"extras", "order"} -> {8000}
      [] OTHER -> {40000}

\* np.random.normal(40_000, 8_000): ship-load of the other combinations
ShipDraws(s) ==
    CASE s = "totals" -> {40000, 56000}
      [] s \in {"extras", "order"} -> {56000}
      [] OTHER -> {40000}

\* np.random.dirichlet(np.ones(n)): the shape of the weight vector
RailWeightDraws == {"flat"}
ShipWeightDraws(s) == IF s = "times" THEN {"skew"} ELSE {"flat"}

\* np.random.randint(0, 24) and np.random.randint(0, 60) of one event
TimeDraws(s, key, kind, j) ==
    IF s = "times" /\ key # FOCAL /\ j = 0
    THEN IF kind = "rail_in" THEN {<<0, 0>>, <<23, 59>>}
         ELSE IF kind = "ship_load" THEN {<<6, 0>>, <<12, 0>>}
         ELSE {<<12, 0>>}
    ELSE {<<12, 0>>}

\* np.random.randint(1, 6): the stockpile number
StockpileDraws == {1}

\* np.random.rand() < 0.6
RandDraws(s) == IF s = "tags" THEN {TRUE, FALSE} ELSE {FALSE}

\* np.random.choice(key_shipments): the index drawn for the j-th ship_load
ChoiceDraws(j) == {(j % 3) + 1}

\* np.random.randint(0, 3)
NExtraDraws(s, key) ==
    IF s = "extras" /\ key # FOCAL THEN {0, 1, 2}
    ELSE IF s = "focal" /\ key = FOCAL THEN {0, 1}
    ELSE IF s = "order" THEN {2}
    ELSE IF s = "counts" THEN {0, 1, 2}
    ELSE {0}

\* np.random.choice(["rehandle", "adjustment"])
ETypeDraws(j) == IF j = 0 THEN {"rehandle"} ELSE {"adjustment"}

\* float(np.random.normal(0, 2_000))
TonnesDraws(s, j) ==
    IF j = 0
    THEN IF s = "order" THEN {3000} ELSE {-2000, 3000}
    ELSE {-2000}

----------------------------------------------------------------------------
(* Pure parts of the generator *)

\* faulty variant of TimeOf: an hour is taken for two
TimeOfLongHours(day, hour, minute) ==
    day * MINUTES_PER_DAY + hour * 120 + minute

\* faulty variant of TimeOf: the day is dropped from the timestamp
TimeOfNoDay(day, hour, minute) == hour * 60 + minute

\* pd.Timestamp + pd.Timedelta(hours, minutes)
TimeOf(day, hour, minute) == day * MINUTES_PER_DAY + hour * 60 + minute

\* the calendar day an event_time falls on (event_time.dt.date)
DateOf(t) == t \div MINUTES_PER_DAY

\* f"EVT-{d.strftime('%Y%m%d')}-{event_seq:04d}": the day and the sequence
\* number, both recoverable from the string
EventId(day, seq) == <<"EVT", day, seq>>

\* f"{site.split()[0][:3].upper()}-{prod}-SP{n:02d}"
SitePrefix(site) == IF site = "Pilbara Port" THEN "PIL" ELSE "SEC"
StockpileId(site, prod, n) == <<SitePrefix(site), prod, "SP", n>>

Event(day, seq, t, key, n, etype, tonnes, shipment) ==
    [event_id |-> EventId(day, seq),
     event_time |-> t,
     site |-> key[1],
     stockpile_id |-> StockpileId(key[1], key[2], n),
     product_code |-> key[2],
     event_type |-> etype,
     tonnes_delta |-> tonnes,
     shipment_id |-> shipment]

\* faulty variant of SeedEvent: the seed carries no tonnes
SeedEventZero(first_day, seq, key) ==
    Event(first_day, seq, TimeOf(first_day, 0, 1), key, 1,
          "initial_inventory", 0, None)

\* the initial_inventory event of one pair
SeedEvent(first_day, seq, key) ==
    Event(first_day, seq, TimeOf(first_day, 0, 1), key, 1,
          "initial_inventory", StartInv(key), None)

\* faulty variant of NextSeq: a sequence number is skipped
NextSeqSkip(seq) == seq + 2

\* faulty variant of NextSeq: the counter is not advanced
NextSeqStuck(seq) == seq

\* event_seq += 1
NextSeq(seq) == seq + 1

\* faulty variant of DesignedNet: the drawdown is a tenth of the designed one
DesignedNetShallow(day, noise) ==
    IF INVENTORY_DIP_START <= day /\ day <= INVENTORY_DIP_END
    THEN -5000
    ELSE noise

\* faulty variant of DesignedNet: the drawdown starts a day late
DesignedNetLate(day, noise) ==
    IF INVENTORY_DIP_START < day /\ day <= INVENTORY_DIP_END
    THEN -50000
    ELSE noise

\* the designed net of one day of MM62 at Pilbara Port
DesignedNet(day, noise) ==
    IF INVENTORY_DIP_START <= day /\ day <= INVENTORY_DIP_END
    THEN -50000
    ELSE noise

\* faulty variant of FocalTotals: the ship-load is derived from the nominal
\* rail-in, not from the drawn one
FocalTotalsNominal(net, noise) ==
    <<160000 + noise, Max(160000 - net, 20000)>>

\* the planner's totals of the focal pair: <<rail_in_total, ship_load_total>>
FocalTotals(net, noise) ==
    LET rail == 160000 + noise
    IN  <<rail, Max(rail - net, 20000)>>

\* faulty variant of OtherTotals: the targets are not floored
OtherTotalsNoFloor(rail_draw, ship_draw) == <<rail_draw, ship_draw>>

\* the planner's totals of any other pair
OtherTotals(rail_draw, ship_draw) ==
    <<Max(rail_draw, 10000), Max(ship_draw, 10000)>>

\* faulty variant of ClampShipLoad: the cap leaves no buffer
ClampNoBuffer(inventory, rail_in, requested) ==
    IF requested > inventory + rail_in
    THEN Max(inventory + rail_in, 0)
    ELSE requested

\* faulty variant of ClampShipLoad: no cap
ClampNever(inventory, rail_in, requested) == requested

\* faulty variant of ClampShipLoad: the cap is not floored at zero
ClampNoFloor(inventory, rail_in, requested) ==
    LET max_shippable == inventory + rail_in - MIN_INVENTORY_BUFFER
    IN  IF requested > max_shippable THEN max_shippable ELSE requested

\* the ship-load clamp of the Feasibility Guard
ClampShipLoad(inventory, rail_in, requested) ==
    LET max_shippable == inventory + rail_in - MIN_INVENTORY_BUFFER
    IN  IF requested > max_shippable
        THEN Max(max_shippable, 0)
        ELSE requested

\* faulty variant of ShipEvents: one event short of the remainder
ShipEventsShort(n, nrail) == Max(2, n - nrail - 1)

\* int(n_events * fraction), the fraction in percent
RailEvents(n, pct) == Max(3, (n * pct) \div 100)
ShipEvents(n, nrail) == Max(2, n - nrail)

\* The resolution of a weight of np.random.dirichlet: weights are hundredths.
WEIGHT_UNIT == 100

\* faulty variant of Dirichlet: the weights do not sum to the unit
DirichletUnnormalised(shape, n) ==
    [j \in 1..n |-> IF shape = "flat" \/ j > 1
                    THEN WEIGHT_UNIT \div n
                    ELSE WEIGHT_UNIT - n]

\* A weight vector of np.random.dirichlet(np.ones(n)): n strictly positive
\* weights that sum to WEIGHT_UNIT, nearly equal ("flat") or with nearly all
\* the mass on the first ("skew").
Dirichlet(shape, n) ==
    IF shape = "flat"
    THEN [j \in 1..n |-> (WEIGHT_UNIT \div n)
                           + (IF j <= WEIGHT_UNIT % n THEN 1 ELSE 0)]
    ELSE [j \in 1..n |-> IF j = 1 THEN WEIGHT_UNIT - (n - 1) ELSE 1]

\* faulty variant of Shares: every share is cut down to whole thousands
SharesInThousands(total, weights) ==
    [j \in 1..Len(weights) |->
        ((total * weights[j]) \div (WEIGHT_UNIT * 1000)) * 1000]

\* total * weights
Shares(total, weights) ==
    [j \in 1..Len(weights) |-> (total * weights[j]) \div WEIGHT_UNIT]

\* faulty variant of KeyShipmentsFor: the window is not tested
KeyShipmentsAnyDay(key, day) == IF key = FOCAL THEN KEY_SHIPMENTS ELSE <<>>

\* the key shipments a ship_load of this pair and day may be linked to
KeyShipmentsFor(key, day) ==
    IF key = FOCAL /\ OUTAGE_START <= day /\ day <= OUTAGE_END
    THEN KEY_SHIPMENTS
    ELSE <<>>

\* faulty variant of ClampAdjustment: the sampled tonnes are always accepted
ClampAdjustmentNever(inventory, rail_in, ship_load, adj_net, tonnes) == tonnes

\* the tonnes an adjustment is accepted with
ClampAdjustment(inventory, rail_in, ship_load, adj_net, tonnes) ==
    LET committed == inventory + rail_in - ship_load + adj_net
        projected == committed + tonnes
    IN  IF projected < MIN_INVENTORY_BUFFER
        THEN Max(0, MIN_INVENTORY_BUFFER - committed)
        ELSE tonnes

\* faulty variant of DailyNet: the adjustments are left out
DailyNetNoAdjustment(rail_in, ship_load, adj_net) == rail_in - ship_load

\* faulty variant of DailyNet: the adjustments enter with the wrong sign
DailyNetSignFlipped(rail_in, ship_load, adj_net) ==
    rail_in - ship_load - adj_net

\* daily_net
DailyNet(rail_in, ship_load, adj_net) == rail_in - ship_load + adj_net

----------------------------------------------------------------------------
(* The state after the locals of generate_raw_port_stockpile_events are set *)
(* up: rows = [], event_seq = 1, running_inventory a copy of the table.     *)

Unset == 0

InitLocals ==
    /\ current_inventory = Unset
    /\ n_events = Unset
    /\ rail_in_total = Unset
    /\ ship_load_total = Unset
    /\ rail_events = Unset
    /\ ship_events = Unset
    /\ rail_tonnes = <<>>
    /\ ship_tonnes = <<>>
    /\ key_shipments = <<>>
    /\ i = 0
    /\ adjustment_net = 0
    /\ n_extra = 0

Init ==
    /\ stream \in StreamClasses
    /\ pc = "seed"
    /\ rows = <<>>
    /\ event_seq = 1
    /\ running_inventory = [key \in Keys |-> StartInv(key)]
    /\ mm62_pilbara_net = <<>>
    /\ cumulative = 850000
    /\ d = RANGE_START
    /\ k = 1
    /\ InitLocals

----------------------------------------------------------------------------
(* Seeding: one iteration of the loop over STARTING_INVENTORY.items() *)

SeedInitialInventory ==
    /\ pc = "seed"
    /\ rows' = Append(rows, SeedEvent(RANGE_START, event_seq, Pairs[k]))
    /\ event_seq' = NextSeq(event_seq)
    /\ IF k < NPairs
       THEN k' = k + 1 /\ pc' = "seed"
       ELSE k' = 1 /\ pc' = "design"
    /\ UNCHANGED <<stream, running_inventory, mm62_pilbara_net, cumulative, d,
                   locals>>

(* Target Planner, narrative part: one iteration of the loop that designs   *)
(* the daily net of MM62 at Pilbara Port.  mm62_pilbara_net is the sequence *)
(* of the nets designed so far, one per day from RANGE_START.               *)

DesignDay ==
    /\ pc = "design"
    /\ \E noise \in NetNoiseDraws(stream) :
          LET net == DesignedNet(d, IF INVENTORY_DIP_START <= d
                                       /\ d <= INVENTORY_DIP_END
                                    THEN 0 ELSE noise)
          IN  /\ mm62_pilbara_net' = Append(mm62_pilbara_net, net)
              /\ cumulative' = cumulative + net
    /\ IF d < RANGE_END
       THEN d' = d + 1 /\ pc' = "design"
       ELSE d' = RANGE_START /\ pc' = "plan"
    /\ UNCHANGED <<stream, rows, event_seq, running_inventory, k, locals>>

NetOf(day) == mm62_pilbara_net[day - RANGE_START + 1]

(* faulty variant of PlanDay: the inventory read is that of the first pair *)

PlanDayFirstPair ==
    /\ pc = "plan"
    /\ current_inventory' = running_inventory[Pairs[1]]
    /\ \E n \in NEventsDraws(stream) : n_events' = n
    /\ IF Pairs[k] = FOCAL
       THEN \E noise \in RailNoiseDraws(stream) :
              /\ rail_in_total' = FocalTotals(NetOf(d), noise)[1]
              /\ ship_load_total' = FocalTotals(NetOf(d), noise)[2]
       ELSE \E r \in RailDraws(stream), s \in ShipDraws(stream) :
              /\ rail_in_total' = OtherTotals(r, s)[1]
              /\ ship_load_total' = OtherTotals(r, s)[2]
    /\ pc' = "guard"
    /\ UNCHANGED <<stream, rows, event_seq, running_inventory,
                   mm62_pilbara_net, cumulative, d, k, rail_events,
                   ship_events, rail_tonnes, ship_tonnes, key_shipments, i,
                   adjustment_net, n_extra>>

(* Target Planner, one (day, site, prod): reads the running inventory and   *)
(* draws the event-count hint and the totals.                               *)

PlanDay ==
    /\ pc = "plan"
    /\ current_inventory' = running_inventory[Pairs[k]]
    /\ \E n \in NEventsDraws(stream) : n_events' = n
    /\ IF Pairs[k] = FOCAL
       THEN \E noise \in RailNoiseDraws(stream) :
              /\ rail_in_total' = FocalTotals(NetOf(d), noise)[1]
              /\ ship_load_total' = FocalTotals(NetOf(d), noise)[2]
       ELSE \E r \in RailDraws(stream), s \in ShipDraws(stream) :
              /\ rail_in_total' = OtherTotals(r, s)[1]
              /\ ship_load_total' = OtherTotals(r, s)[2]
    /\ pc' = "guard"
    /\ UNCHANGED <<stream, rows, event_seq, running_inventory,
                   mm62_pilbara_net, cumulative, d, k, rail_events,
                   ship_events, rail_tonnes, ship_tonnes, key_shipments, i,
                   adjustment_net, n_extra>>

(* Feasibility Guard: the cap on ship_load_total *)

GuardShipLoad ==
    /\ pc = "guard"
    /\ ship_load_total' =
          ClampShipLoad(current_inventory, rail_in_total, ship_load_total)
    /\ pc' = "split"
    /\ UNCHANGED <<stream, rows, event_seq, running_inventory,
                   mm62_pilbara_net, cumulative, d, k, current_inventory,
                   n_events, rail_in_total, rail_events, ship_events,
                   rail_tonnes, ship_tonnes, key_shipments, i, adjustment_net,
                   n_extra>>

(* Event Decomposer: the event counts and the rail-in shares *)

SplitEvents ==
    /\ pc = "split"
    /\ \E pct \in FractionDraws(stream), shape \in RailWeightDraws :
          LET nrail == RailEvents(n_events, pct)
          IN  /\ rail_events' = nrail
              /\ ship_events' = ShipEvents(n_events, nrail)
              /\ rail_tonnes' = Shares(rail_in_total, Dirichlet(shape, nrail))
    /\ i' = 0
    /\ pc' = "rail"
    /\ UNCHANGED <<stream, rows, event_seq, running_inventory,
                   mm62_pilbara_net, cumulative, d, k, current_inventory,
                   n_events, rail_in_total, ship_load_total, ship_tonnes,
                   key_shipments, adjustment_net, n_extra>>

(* one iteration of the rail_in loop; the range is tested before the body *)

EmitRailIn ==
    /\ pc = "rail"
    /\ i < rail_events
    /\ \E hm \in TimeDraws(stream, Pairs[k], "rail_in", i),
          sp \in StockpileDraws :
          rows' = Append(rows,
                         Event(d, event_seq, TimeOf(d, hm[1], hm[2]), Pairs[k],
                               sp, "rail_in", rail_tonnes[i + 1], None))
    /\ event_seq' = NextSeq(event_seq)
    /\ i' = i + 1
    /\ UNCHANGED <<stream, pc, running_inventory, mm62_pilbara_net,
                   cumulative, d, k, current_inventory, n_events,
                   rail_in_total, ship_load_total, rail_events, ship_events,
                   rail_tonnes, ship_tonnes, key_shipments, adjustment_net,
                   n_extra>>

(* the ship-load shares and the key shipments of the day *)

SplitShipLoad ==
    /\ pc = "rail"
    /\ i >= rail_events
    /\ \E shape \in ShipWeightDraws(stream) :
          ship_tonnes' = Shares(ship_load_total, Dirichlet(shape, ship_events))
    /\ key_shipments' = KeyShipmentsFor(Pairs[k], d)
    /\ i' = 0
    /\ pc' = "ship"
    /\ UNCHANGED <<stream, rows, event_seq, running_inventory,
                   mm62_pilbara_net, cumulative, d, k, current_inventory,
                   n_events, rail_in_total, ship_load_total, rail_events,
                   ship_events, rail_tonnes, adjustment_net, n_extra>>

(* one iteration of the ship_load loop *)

EmitShipLoad ==
    /\ pc = "ship"
    /\ i < ship_events
    /\ \E hm \in TimeDraws(stream, Pairs[k], "ship_load", i),
          sp \in StockpileDraws :
          \E shipment_id \in
                IF key_shipments # <<>>
                THEN {IF u THEN key_shipments[c] ELSE None :
                         u \in RandDraws(stream), c \in ChoiceDraws(i)}
                ELSE {None} :
             rows' = Append(rows,
                            Event(d, event_seq, TimeOf(d, hm[1], hm[2]),
                                  Pairs[k], sp, "ship_load",
                                  -ship_tonnes[i + 1], shipment_id))
    /\ event_seq' = NextSeq(event_seq)
    /\ i' = i + 1
    /\ UNCHANGED <<stream, pc, running_inventory, mm62_pilbara_net,
                   cumulative, d, k, current_inventory, n_events,
                   rail_in_total, ship_load_total, rail_events, ship_events,
                   rail_tonnes, ship_tonnes, key_shipments, adjustment_net,
                   n_extra>>

(* adjustment_net = 0.0 and the number of rehandle/adjustment events *)

DrawExtras ==
    /\ pc = "ship"
    /\ i >= ship_events
    /\ adjustment_net' = 0
    /\ \E n \in NExtraDraws(stream, Pairs[k]) : n_extra' = n
    /\ i' = 0
    /\ pc' = "extra"
    /\ UNCHANGED <<stream, rows, event_seq, running_inventory,
                   mm62_pilbara_net, cumulative, d, k, current_inventory,
                   n_events, rail_in_total, ship_load_total, rail_events,
                   ship_events, rail_tonnes, ship_tonnes, key_shipments>>

(* one iteration of the rehandle/adjustment loop: the draw, the guard on    *)
(* the projection, and the event                                            *)

EmitAdjustment ==
    /\ pc = "extra"
    /\ i < n_extra
    /\ \E hm \in TimeDraws(stream, Pairs[k], "extra", i),
          etype \in ETypeDraws(i),
          drawn \in TonnesDraws(stream, i),
          sp \in StockpileDraws :
          LET tonnes == ClampAdjustment(current_inventory, rail_in_total,
                                        ship_load_total, adjustment_net, drawn)
          IN  /\ adjustment_net' = adjustment_net + tonnes
              /\ rows' = Append(rows,
                                Event(d, event_seq, TimeOf(d, hm[1], hm[2]),
                                      Pairs[k], sp, etype, tonnes, None))
    /\ event_seq' = NextSeq(event_seq)
    /\ i' = i + 1
    /\ UNCHANGED <<stream, pc, running_inventory, mm62_pilbara_net,
                   cumulative, d, k, current_inventory, n_events,
                   rail_in_total, ship_load_total, rail_events, ship_events,
                   rail_tonnes, ship_tonnes, key_shipments, n_extra>>

(* faulty variant of UpdateInventory: the day loop stops a day early *)

UpdateInventoryStopsEarly ==
    /\ pc = "extra"
    /\ i >= n_extra
    /\ running_inventory' =
          [running_inventory EXCEPT ![Pairs[k]] =
              current_inventory
                + DailyNet(rail_in_total, ship_load_total, adjustment_net)]
    /\ IF k < NPairs
       THEN k' = k + 1 /\ d' = d /\ pc' = "plan"
       ELSE IF d < RANGE_END - 1
            THEN k' = 1 /\ d' = d + 1 /\ pc' = "plan"
            ELSE k' = k /\ d' = d /\ pc' = "done"
    /\ UNCHANGED <<stream, rows, event_seq, mm62_pilbara_net, cumulative,
                   locals>>

(* the update of running_inventory, and the step of the enclosing loops     *)
(* (for d in ALL_DATES: for site in PORT_SITES: for prod in PRODUCTS)       *)

UpdateInventory ==
    /\ pc = "extra"
    /\ i >= n_extra
    /\ running_inventory' =
          [running_inventory EXCEPT ![Pairs[k]] =
              current_inventory
                + DailyNet(rail_in_total, ship_load_total, adjustment_net)]
    /\ IF k < NPairs
       THEN k' = k + 1 /\ d' = d /\ pc' = "plan"
       ELSE IF d < RANGE_END
            THEN k' = 1 /\ d' = d + 1 /\ pc' = "plan"
            ELSE k' = k /\ d' = d /\ pc' = "done"
    /\ UNCHANGED <<stream, rows, event_seq, mm62_pilbara_net, cumulative,
                   locals>>

Next ==
    \/ SeedInitialInventory
    \/ DesignDay
    \/ PlanDay
    \/ GuardShipLoad
    \/ SplitEvents
    \/ EmitRailIn
    \/ SplitShipLoad
    \/ EmitShipLoad
    \/ DrawExtras
    \/ EmitAdjustment
    \/ UpdateInventory

Spec == Init /\ [][Next]_vars

----------------------------------------------------------------------------
(* The Feasibility Guard as a function of its three inputs: the clamp is    *)
(* applied once to an arbitrary inventory, rail-in total and requested      *)
(* ship-load, not only to those a run of the generator produces.            *)

GuardInventories == {0, 5000, 10000, 30000, 850000}
GuardRailIns == {0, 5000, 10000, 40000, 160000}
GuardRequests == {0, 10000, 20000, 40000, 210000}

GuardInit ==
    /\ stream = "totals"
    /\ pc = "guard"
    /\ rows = <<>>
    /\ event_seq = 1
    /\ running_inventory = [key \in Keys |-> StartInv(key)]
    /\ mm62_pilbara_net = <<>>
    /\ cumulative = 850000
    /\ d = RANGE_START
    /\ k = 1
    /\ current_inventory \in GuardInventories
    /\ n_events = Unset
    /\ rail_in_total \in GuardRailIns
    /\ ship_load_total \in GuardRequests
    /\ rail_events = Unset
    /\ ship_events = Unset
    /\ rail_tonnes = <<>>
    /\ ship_tonnes = <<>>
    /\ key_shipments = <<>>
    /\ i = 0
    /\ adjustment_net = 0
    /\ n_extra = 0

GuardNext == GuardShipLoad

GuardSpec == GuardInit /\ [][GuardNext]_vars

----------------------------------------------------------------------------
(* Reading the ledger *)

KeyOf(e) == <<e.site, e.product_code>>
SeqOf(e) == e.event_id[3]
IndicesOf(key) == {n \in 1..Len(rows) : KeyOf(rows[n]) = key}
IsSeed(e) == e.event_type = "initial_inventory"
SeedIndices(key) == {n \in IndicesOf(key) : IsSeed(rows[n])}

\* the sum of tonnes_delta over the events of `key` that satisfy Keep
LedgerSum(key, Keep(_)) ==
    LET acc[n \in 0..Len(rows)] ==
            IF n = 0 THEN 0
            ELSE acc[n - 1]
                 + (IF KeyOf(rows[n]) = key /\ Keep(rows[n])
                    THEN rows[n].tonnes_delta ELSE 0)
    IN  acc[Len(rows)]

\* the number of initial_inventory events of a pair
SeedCount(key) ==
    LET acc[n \in 0..Len(rows)] ==
            IF n = 0 THEN 0
            ELSE acc[n - 1]
                 + (IF KeyOf(rows[n]) = key /\ IsSeed(rows[n]) THEN 1 ELSE 0)
    IN  acc[Len(rows)]

\* running sum of a pair over all its events emitted so far
CumTonnes(key) == LedgerSum(key, LAMBDA e : TRUE)

\* running sum of a pair up to and including event_time t
CumTonnesAt(key, t) == LedgerSum(key, LAMBDA e : e.event_time <= t)

\* sum of the deltas of a pair's events that fall on a calendar day
DayTonnes(key, day) == LedgerSum(key, LAMBDA e : DateOf(e.event_time) = day)
DayTonnesNoSeed(key, day) ==
    LedgerSum(key, LAMBDA e : DateOf(e.event_time) = day /\ ~IsSeed(e))

\* between two (day, site, prod) steps, or after the last one
StepBoundary == pc \in {"plan", "done"}
\* all events of the current (day, site, prod) are emitted, the update is next
DayPairEmitted == pc = "extra" /\ i >= n_extra

----------------------------------------------------------------------------
(* C1 - C10 *)

SeedTime(key) == rows[CHOOSE n \in SeedIndices(key) : TRUE].event_time

\* C1: for every pair, with its events ordered by non-decreasing event_time
\* from its initial_inventory event on, the running sum of tonnes_delta is
\* >= 0 at every prefix, also at prefixes that end in the middle of a day.
\* (Read after complete (day, site, prod) steps; a prefix ends with all the
\* events that share its last event_time.)
C1_PrefixSumNonNegative ==
    StepBoundary =>
        \A key \in Keys : \A n \in IndicesOf(key) :
            rows[n].event_time >= SeedTime(key)
                => CumTonnesAt(key, rows[n].event_time) >= 0

\* C2: after every processed (day, site, prod) step the running inventory of
\* every pair, which is the cumulative sum of its emitted tonnes_delta, is at
\* least MIN_INVENTORY_BUFFER.
C2_InventoryAtLeastBuffer ==
    StepBoundary =>
        \A key \in Keys :
            /\ running_inventory[key] >= MIN_INVENTORY_BUFFER
            /\ CumTonnes(key) >= MIN_INVENTORY_BUFFER

C2_Witness ==
    /\ StepBoundary
    /\ d >= INVENTORY_DIP_START
    /\ \E key \in Keys : running_inventory[key] = MIN_INVENTORY_BUFFER
    /\ \E n \in 1..Len(rows) :
          rows[n].event_type = "adjustment" /\ rows[n].tonnes_delta = 0

\* C3 as stated: the deltas of all events of a pair that fall on a calendar
\* day sum to that day's approved net rail_in_total - ship_load_total +
\* adjustment_net.
C3_DaySumEqualsNet ==
    DayPairEmitted =>
        DayTonnes(Pairs[k], d)
            = DailyNet(rail_in_total, ship_load_total, adjustment_net)

\* C3 as amended: the deltas of the events of a pair that fall on a calendar
\* day, the initial_inventory event left out, sum to that day's approved net;
\* with the initial_inventory event, the first day sums to the starting
\* inventory plus the net.
C3_DaySumEqualsNetExceptSeed ==
    DayPairEmitted =>
        /\ DayTonnesNoSeed(Pairs[k], d)
              = DailyNet(rail_in_total, ship_load_total, adjustment_net)
        /\ DayTonnes(Pairs[k], d)
              = (IF d = RANGE_START THEN StartInv(Pairs[k]) ELSE 0)
                + DailyNet(rail_in_total, ship_load_total, adjustment_net)

C3_Witness ==
    /\ DayPairEmitted
    /\ d = RANGE_START
    /\ n_extra = 2
    /\ adjustment_net # 0
    /\ ship_load_total < 56000

\* C4: the initial_inventory event of a pair is timestamped at or before
\* every other event of that pair.
C4_SeedTimeFirst ==
    \A key \in Keys : \A s \in SeedIndices(key) : \A n \in IndicesOf(key) :
        rows[s].event_time <= rows[n].event_time

\* C5: every pair has exactly one initial_inventory event, it carries the
\* pair's starting inventory and is emitted before every other event of the
\* pair; once the seeding is over no further one is emitted.
C5_SingleSeedEvent ==
    \A key \in Keys :
        LET count == SeedCount(key)
            s == CHOOSE n \in 1..Len(rows) :
                     KeyOf(rows[n]) = key /\ IsSeed(rows[n])
        IN  /\ count <= 1
            /\ pc # "seed" => count = 1
            /\ count = 0 => \A n \in 1..Len(rows) : KeyOf(rows[n]) # key
            /\ count = 1 =>
                  /\ rows[s].tonnes_delta = StartInv(key)
                  /\ \A n \in 1..Len(rows) : KeyOf(rows[n]) = key => s <= n

C5_Witness ==
    /\ pc = "done"
    /\ \A key \in Keys : Cardinality(IndicesOf(key)) > NumDays

\* C6: between steps, the running_inventory of every pair equals the sum of
\* the tonnes_delta of all events emitted so far for that pair.
C6_InventoryReconstructable ==
    StepBoundary =>
        \A key \in Keys : running_inventory[key] = CumTonnes(key)

C6_Witness ==
    /\ pc = "done"
    /\ \E key \in Keys : running_inventory[key] # StartInv(key)
    /\ \E n \in 1..Len(rows) :
          rows[n].event_type = "rehandle" /\ rows[n].tonnes_delta # 0

\* C7 as stated: for any inventory and rail-in total, the approved ship-load
\* keeps inventory + rail-in - ship-load at or above the buffer.
C7_GuardAlwaysFeasible ==
    pc = "split" =>
        current_inventory + rail_in_total - ship_load_total
            >= MIN_INVENTORY_BUFFER

\* C7 as amended: when inventory + rail-in covers the buffer the approved
\* ship-load keeps the projection at or above the buffer; when it does not,
\* the approved ship-load is 0 and the projection is inventory + rail-in.
C7_GuardFeasibleWhenCovered ==
    pc = "split" =>
        IF current_inventory + rail_in_total >= MIN_INVENTORY_BUFFER
        THEN current_inventory + rail_in_total - ship_load_total
                >= MIN_INVENTORY_BUFFER
        ELSE ship_load_total = 0

C7_Witness ==
    /\ pc = "split"
    /\ current_inventory = 10000
    /\ rail_in_total = 0
    /\ ship_load_total = 0

\* C8: the clamp leaves a requested ship-load <= max_shippable as it is and
\* replaces a larger one by max(max_shippable, 0); the approved value is
\* never negative and never above the requested one; 30,000 / 5,000 /
\* 40,000 gives 25,000 and an inventory at the buffer with no rail-in gives 0.
C8_ClampExact ==
    [][pc = "guard" =>
          LET max_shippable ==
                  current_inventory + rail_in_total - MIN_INVENTORY_BUFFER
          IN  /\ ship_load_total <= max_shippable
                    => ship_load_total' = ship_load_total
              /\ ship_load_total > max_shippable
                    => ship_load_total' = Max(max_shippable, 0)
              /\ ship_load_total' >= 0
              /\ ship_load_total' <= ship_load_total
              /\ (current_inventory = 30000 /\ rail_in_total = 5000
                  /\ ship_load_total = 40000) => ship_load_total' = 25000
              /\ (current_inventory = MIN_INVENTORY_BUFFER
                  /\ rail_in_total = 0) => ship_load_total' = 0]_vars

C8_Witness ==
    /\ pc = "split"
    /\ current_inventory = 30000
    /\ rail_in_total = 5000
    /\ ship_load_total = 25000

\* C9: an event with a shipment_id is a ship_load of (Pilbara Port, MM62) on
\* a day of OUTAGE_START..OUTAGE_END, and its shipment_id is a key shipment.
C9_ShipmentTagScope ==
    \A n \in 1..Len(rows) :
        rows[n].shipment_id # None =>
            /\ rows[n].event_type = "ship_load"
            /\ KeyOf(rows[n]) = FOCAL
            /\ OUTAGE_START <= DateOf(rows[n].event_time)
            /\ DateOf(rows[n].event_time) <= OUTAGE_END
            /\ \E c \in 1..Len(KEY_SHIPMENTS) :
                  rows[n].shipment_id = KEY_SHIPMENTS[c]

C9_Witness ==
    /\ pc = "done"
    /\ \A c \in 1..Len(KEY_SHIPMENTS) : \E n \in 1..Len(rows) :
          rows[n].shipment_id = KEY_SHIPMENTS[c]
    /\ \E n \in 1..Len(rows) :
          /\ rows[n].event_type = "ship_load"
          /\ KeyOf(rows[n]) = FOCAL
          /\ DateOf(rows[n].event_time) = OUTAGE_END
          /\ rows[n].shipment_id = None

\* C10: the n-th emitted event carries sequence number n, event_seq is the
\* next number to hand out, and no two events share an event_id.
C10_UniqueEventIds ==
    /\ event_seq = Len(rows) + 1
    /\ \A n \in 1..Len(rows) : SeqOf(rows[n]) = n
    /\ Cardinality({rows[n].event_id : n \in 1..Len(rows)}) = Len(rows)

C10_Witness ==
    /\ pc = "done"
    /\ \A t \in {"initial_inventory", "rail_in", "ship_load", "rehandle",
                 "adjustment"} :
          \E n \in 1..Len(rows) : rows[n].event_type = t

----------------------------------------------------------------------------
(* C11 - C20 *)

\* end-of-day cumulative inventory of a pair, as validate_inventory_story
\* computes it: the cumulative sum of the per-day sums of tonnes_delta
CumThrough(key, day) ==
    LedgerSum(key, LAMBDA e : DateOf(e.event_time) <= day)

\* the days validate_inventory_story averages as "pre", and the dip window
PreDays == {day \in ALL_DATES : day < OUTAGE_START}
WindowDays == INVENTORY_DIP_START .. INVENTORY_DIP_END

\* the sum of the end-of-day inventories of the pre days
PreCumSum(key) ==
    LET acc[day \in (RANGE_START - 1) .. RANGE_END] ==
            IF day < RANGE_START THEN 0
            ELSE acc[day - 1]
                 + (IF day \in PreDays THEN CumThrough(key, day) ELSE 0)
    IN  acc[RANGE_END]

\* the declared decline (window days x 50,000) and its 80 % tolerance band
DeclaredDecline == (INVENTORY_DIP_END - INVENTORY_DIP_START + 1) * 50000
ToleratedDecline == (DeclaredDecline * 4) \div 5

\* the accepted rehandle/adjustment deltas of a pair inside the dip window
WindowAdjustments(key) ==
    LedgerSum(key, LAMBDA e : /\ DateOf(e.event_time) \in WindowDays
                              /\ e.event_type \in {"rehandle", "adjustment"})

\* the guard leaves the focal ship-load of every window day as planned
WindowUncapped ==
    \A w \in WindowDays :
        CumThrough(FOCAL, w - 1) - 50000 >= MIN_INVENTORY_BUFFER

\* C11 as stated: the minimum end-of-day inventory of the focal pair inside
\* the drawdown window is below the average end-of-day inventory of the pre
\* period by at least 80 % of the declared decline.
C11_DeclineFromPreAverage ==
    pc = "done" =>
        \E w \in WindowDays :
            CumThrough(FOCAL, w) * Cardinality(PreDays)
                <= PreCumSum(FOCAL) - ToleratedDecline * Cardinality(PreDays)

\* C11 as amended: measured from the end-of-day inventory of the last day
\* before the window, the minimum inside the window is lower by the declared
\* decline less the window's accepted adjustments, hence by 80 % of the
\* declared decline when those adjustments stay within the tolerance.
C11_DeclineFromWindowStart ==
    (pc = "done" /\ WindowUncapped) =>
        /\ \E w \in WindowDays :
              CumThrough(FOCAL, w)
                 <= CumThrough(FOCAL, INVENTORY_DIP_START - 1)
                    - DeclaredDecline + WindowAdjustments(FOCAL)
        /\ WindowAdjustments(FOCAL) <= DeclaredDecline - ToleratedDecline
              => \E w \in WindowDays :
                    CumThrough(FOCAL, w)
                       <= CumThrough(FOCAL, INVENTORY_DIP_START - 1)
                          - ToleratedDecline

C11_Witness ==
    /\ pc = "done"
    /\ WindowUncapped
    /\ NetOf(INVENTORY_DIP_START - 1) = 30000
    /\ NetOf(RANGE_START) = -30000

\* the guard has approved the totals of the step under way
TotalsApproved == pc \in {"split", "rail", "ship", "extra"}

Committed ==
    current_inventory + rail_in_total - ship_load_total + adjustment_net

\* C13: every rehandle/adjustment step leaves the projection
\* current_inventory + rail_in_total - ship_load_total + adjustment_net at or
\* above MIN_INVENTORY_BUFFER; the accepted delta is the sampled one unless
\* the sampled one would take the projection below the buffer, and a
\* replacement is never negative.
C13_AdjustmentGuard ==
    [][(pc = "extra" /\ i' = i + 1) =>
          LET delta == adjustment_net' - adjustment_net
          IN  /\ Committed' >= MIN_INVENTORY_BUFFER
              /\ Committed' = Committed + delta
              /\ rows'[Len(rows')].tonnes_delta = delta
              /\ \/ delta \in TonnesDraws(stream, i)
                 \/ /\ delta >= 0
                    /\ \E drawn \in TonnesDraws(stream, i) :
                          Committed + drawn < MIN_INVENTORY_BUFFER
              /\ (\A drawn \in TonnesDraws(stream, i) :
                     Committed + drawn >= MIN_INVENTORY_BUFFER)
                    => delta \in TonnesDraws(stream, i)]_vars

\* two sampled deltas of -2,000 were replaced by 0: the day had committed
\* exactly the buffer
C13_Witness ==
    /\ pc = "extra"
    /\ i = 2
    /\ Committed = MIN_INVENTORY_BUFFER
    /\ rows[Len(rows)].event_type = "adjustment"
    /\ rows[Len(rows)].tonnes_delta = 0
    /\ rows[Len(rows) - 1].event_type = "rehandle"
    /\ rows[Len(rows) - 1].tonnes_delta = 0

\* the number of events of a day/pair on the ledger, the seed left out
DayPairCount(key, day) ==
    LET acc[n \in 0..Len(rows)] ==
            IF n = 0 THEN 0
            ELSE acc[n - 1]
                 + (IF /\ KeyOf(rows[n]) = key
                       /\ DateOf(rows[n].event_time) = day
                       /\ ~IsSeed(rows[n])
                    THEN 1 ELSE 0)
    IN  acc[Len(rows)]

\* the guard is about to decide: the ship-load clamp, or an adjustment clamp
ShipClampPending == pc = "guard"
AdjustmentClampPending == pc = "extra" /\ i < n_extra

\* C14 as stated: every guard decision of a day/pair, the ship-load clamp and
\* every adjustment clamp, is taken before any ledger event of that day/pair
\* is appended.
C14_GuardsBeforeAnyEvent ==
    (ShipClampPending \/ AdjustmentClampPending) =>
        DayPairCount(Pairs[k], d) = 0

\* C14 as amended: the ship-load clamp is taken after the planner has read
\* the inventory and before any event of the day/pair is appended; an
\* adjustment clamp is taken after all rail_in and ship_load events of the
\* day/pair and the earlier adjustments are appended, and before its own event.
C14_GuardsBeforeOwnEvents ==
    /\ ShipClampPending =>
          /\ DayPairCount(Pairs[k], d) = 0
          /\ current_inventory = running_inventory[Pairs[k]]
    /\ AdjustmentClampPending =>
          DayPairCount(Pairs[k], d) = rail_events + ship_events + i

C14_Witness ==
    /\ AdjustmentClampPending
    /\ i = 1
    /\ d > RANGE_START
    /\ DayPairCount(Pairs[k], d) > n_events

\* the rule the planner applies to a pair on a day: the forced net of the
\* focal pair inside the dip window, the noise targets otherwise
Regime(key, day) ==
    IF key = FOCAL /\ INVENTORY_DIP_START <= day /\ day <= INVENTORY_DIP_END
    THEN "DRAWDOWN"
    ELSE "STEADY"

\* the position of a pair in the loop over the pairs
PairIndex(key) == CHOOSE n \in 1..NPairs : Pairs[n] = key

\* the last day the planner has produced totals for, for a pair
LastPlannedDay(key) ==
    IF pc \in {"seed", "design"} THEN RANGE_START - 1
    ELSE IF pc = "done" THEN RANGE_END
    ELSE IF k > PairIndex(key) \/ (k = PairIndex(key) /\ pc # "plan")
         THEN d
         ELSE d - 1

\* the phase of a pair: not yet seeded, seeded with no day planned, or the
\* regime of the last day planned
Phase(key) ==
    IF pc = "seed" /\ k <= PairIndex(key) THEN "UNSEEDED"
    ELSE IF LastPlannedDay(key) < RANGE_START THEN "SEEDED"
    ELSE Regime(key, LastPlannedDay(key))

\* the transitions of SEEDED -> {STEADY, DRAWDOWN} -> RECOVERING -> STEADY,
\* read generously (STEADY may also be followed by DRAWDOWN)
DeclaredTransitions ==
    {<<"UNSEEDED", "SEEDED">>, <<"SEEDED", "STEADY">>,
     <<"SEEDED", "DRAWDOWN">>, <<"STEADY", "DRAWDOWN">>,
     <<"STEADY", "RECOVERING">>, <<"DRAWDOWN", "RECOVERING">>,
     <<"RECOVERING", "STEADY">>}

\* the transitions the generator makes
RealizedTransitions ==
    {<<"UNSEEDED", "SEEDED">>, <<"SEEDED", "STEADY">>,
     <<"SEEDED", "DRAWDOWN">>, <<"STEADY", "DRAWDOWN">>,
     <<"DRAWDOWN", "STEADY">>}

\* C15 as stated: the phase of every pair changes only along
\* SEEDED -> {STEADY, DRAWDOWN} -> RECOVERING -> STEADY.
C15_DeclaredPhaseMachine ==
    [][\A key \in Keys :
          Phase(key)' # Phase(key)
             => <<Phase(key), Phase(key)'>> \in DeclaredTransitions]_vars

\* C15 as amended: the phase of a pair is SEEDED from its initial_inventory
\* event on, entered once; then the focal pair is in DRAWDOWN on the days of
\* the dip window, where its designed net is -50,000, and in STEADY on every
\* other day, before and after the window alike; every other pair stays in
\* STEADY; there is no other phase and no other transition.
C15_RealizedPhaseMachine ==
    [][/\ \A key \in Keys :
            /\ Phase(key)' # Phase(key)
                  => <<Phase(key), Phase(key)'>> \in RealizedTransitions
            /\ Phase(key)' = "SEEDED" =>
                  Phase(key) \in {"UNSEEDED", "SEEDED"}
            /\ (Phase(key) = "UNSEEDED" /\ Phase(key)' = "SEEDED") =>
                  /\ SeedCount(key) = 0
                  /\ SeedCount(key)' = 1
                  /\ IsSeed(rows'[Len(rows')])
            /\ Phase(key)' = "UNSEEDED" => Phase(key) = "UNSEEDED"
            /\ (key # FOCAL) => Phase(key)' # "DRAWDOWN"
       /\ (TotalsApproved' /\ Pairs[k'] = FOCAL) =>
             (Phase(FOCAL)' = "DRAWDOWN" <=> NetOf(d)' = -50000)]_vars

\* the focal pair is back in STEADY on the day after the window
C15_Witness ==
    /\ pc = "guard"
    /\ Pairs[k] = FOCAL
    /\ d = INVENTORY_DIP_END + 1
    /\ Phase(FOCAL) = "STEADY"
    /\ rail_in_total - ship_load_total = NetOf(d)

\* the realized nets of the days before `day`, summed off the ledger: all
\* events of the pair on earlier days, the seed left out
NetsBefore(key, day) ==
    LedgerSum(key, LAMBDA e : DateOf(e.event_time) < day /\ ~IsSeed(e))

\* the events of the pair dated on `day` or later
CountFrom(key, day) ==
    LET acc[n \in 0..Len(rows)] ==
            IF n = 0 THEN 0
            ELSE acc[n - 1]
                 + (IF /\ KeyOf(rows[n]) = key
                       /\ DateOf(rows[n].event_time) >= day
                       /\ ~IsSeed(rows[n])
                    THEN 1 ELSE 0)
    IN  acc[Len(rows)]

\* C16: the days of a pair are processed in strictly increasing calendar
\* order, one at a time, and the inventory the guard reads on day d is the
\* starting inventory plus the realized nets of all days before d: no day is
\* left out and none is anticipated.
C16_ChronologicalFold ==
    [][/\ \A key \in Keys :
            \/ LastPlannedDay(key)' = LastPlannedDay(key)
            \/ LastPlannedDay(key)' = LastPlannedDay(key) + 1
       /\ ShipClampPending =>
            /\ LastPlannedDay(Pairs[k]) = d
            /\ current_inventory = StartInv(Pairs[k]) + NetsBefore(Pairs[k], d)
            /\ CountFrom(Pairs[k], d) = 0]_vars

C16_Witness ==
    /\ ShipClampPending
    /\ d = RANGE_END
    /\ current_inventory # StartInv(Pairs[k])
    /\ \E n \in 1..Len(rows) :
          /\ KeyOf(rows[n]) = Pairs[k]
          /\ rows[n].event_type = "rehandle"
          /\ rows[n].tonnes_delta = 3000

----------------------------------------------------------------------------
(* The (day, pair) steps in any order that keeps each pair's days in       *)
(* calendar order.  The seeding and design loops have run; every draw of   *)
(* the day loop is fixed by the day, the pair and the position in the step. *)

\* the events of a pair, in the order of the ledger
PairRows(key) ==
    LET Own(e) == KeyOf(e) = key
    IN  SelectSeq(rows, Own)

\* the first day of a pair that has no events yet: the day after its last
\* event, or the first day when it has none but its seed
NextDayOf(key) ==
    LET own == PairRows(key)
    IN  IF IsSeed(own[Len(own)])
        THEN RANGE_START
        ELSE DateOf(own[Len(own)].event_time) + 1

InterleavedInit ==
    /\ stream = "order"
    /\ pc = "pick"
    /\ rows = [n \in 1..NPairs |-> SeedEvent(RANGE_START, n, Pairs[n])]
    /\ event_seq = NPairs + 1
    /\ running_inventory = [key \in Keys |-> StartInv(key)]
    /\ \E noise \in NetNoiseDraws("net") :
          mm62_pilbara_net =
              [n \in 1..NumDays |-> DesignedNet(RANGE_START + n - 1, noise)]
    /\ cumulative = 850000
    /\ d = RANGE_START
    /\ k = 1
    /\ InitLocals

\* the next (day, pair) step: any pair that has days left, on its next day
PickStep ==
    /\ pc = "pick"
    /\ IF \E n \in 1..NPairs : NextDayOf(Pairs[n]) <= RANGE_END
       THEN \E n \in 1..NPairs :
               /\ NextDayOf(Pairs[n]) <= RANGE_END
               /\ k' = n
               /\ d' = NextDayOf(Pairs[n])
               /\ pc' = "plan"
       ELSE pc' = "done" /\ k' = k /\ d' = d
    /\ UNCHANGED <<stream, rows, event_seq, running_inventory,
                   mm62_pilbara_net, cumulative, locals>>

\* the update of running_inventory that ends a step
UpdateInventoryAny ==
    /\ pc = "extra"
    /\ i >= n_extra
    /\ running_inventory' =
          [running_inventory EXCEPT ![Pairs[k]] =
              current_inventory
                + DailyNet(rail_in_total, ship_load_total, adjustment_net)]
    /\ pc' = "pick"
    /\ UNCHANGED <<stream, rows, event_seq, mm62_pilbara_net, cumulative,
                   d, k, locals>>

InterleavedNext ==
    \/ PickStep
    \/ PlanDay
    \/ GuardShipLoad
    \/ SplitEvents
    \/ EmitRailIn
    \/ SplitShipLoad
    \/ EmitShipLoad
    \/ DrawExtras
    \/ EmitAdjustment
    \/ UpdateInventoryAny

InterleavedSpec == InterleavedInit /\ [][InterleavedNext]_vars

\* the tonnes_delta values of a pair, in the order of the ledger
PairTonnes(key) ==
    LET own == PairRows(key)
    IN  [n \in 1..Len(own) |-> own[n].tonnes_delta]

\* the one value of a draw that is fixed
Only(S) == CHOOSE x \in S : TRUE

\* one day of one pair on its own, from the inventory `inventory`:
\* <<the inventory after the day, the tonnes_delta values of the day>>
PairDay(key, day, inventory) ==
    LET totals == IF key = FOCAL
                  THEN FocalTotals(NetOf(day), Only(RailNoiseDraws(stream)))
                  ELSE OtherTotals(Only(RailDraws(stream)),
                                   Only(ShipDraws(stream)))
        rail == totals[1]
        ship == ClampShipLoad(inventory, rail, totals[2])
        nrail == RailEvents(Only(NEventsDraws(stream)), Only(FractionDraws(stream)))
        nship == ShipEvents(Only(NEventsDraws(stream)), nrail)
        railT == Shares(rail, Dirichlet(Only(RailWeightDraws), nrail))
        shipT == Shares(ship, Dirichlet(Only(ShipWeightDraws(stream)), nship))
        nx == Only(NExtraDraws(stream, key))
        adj[j \in 0..nx] ==
            IF j = 0 THEN <<0, <<>>>>
            ELSE LET t == ClampAdjustment(inventory, rail, ship,
                                          adj[j - 1][1],
                                          Only(TonnesDraws(stream, j - 1)))
                 IN  <<adj[j - 1][1] + t, Append(adj[j - 1][2], t)>>
    IN  <<inventory + DailyNet(rail, ship, adj[nx][1]),
          railT \o [j \in 1..nship |-> -shipT[j]] \o adj[nx][2]>>

\* the first n days of one pair on its own, from its starting inventory
PairFold(key, n) ==
    LET fold[m \in 0..n] ==
            IF m = 0 THEN <<StartInv(key), <<StartInv(key)>>>>
            ELSE LET day == PairDay(key, RANGE_START + m - 1, fold[m - 1][1])
                 IN  <<day[1], fold[m - 1][2] \o day[2]>>
    IN  fold[n]

\* C17: in every order of the (day, pair) steps that keeps each pair's days
\* in calendar order, after every step the running inventory of each pair
\* and the sequence of its tonnes_delta values are those of the pair
\* processed on its own under the same draws; a step changes the running
\* inventory of no pair but its own.
C17_OrderIndependent ==
    [][/\ \A key \in Keys :
            running_inventory'[key] # running_inventory[key]
               => key = Pairs[k]
       /\ pc = "pick" =>
            \A key \in Keys :
               LET done == PairFold(key, NextDayOf(key) - RANGE_START)
               IN  /\ running_inventory[key] = done[1]
                   /\ PairTonnes(key) = done[2]]_vars

\* pair-major, last pair first: the second pair has had all its days, the
\* guard capping its ship-load, before the first pair has had any
C17_Witness ==
    /\ pc = "pick"
    /\ NextDayOf(Pairs[1]) = RANGE_START
    /\ NextDayOf(Pairs[NPairs]) = RANGE_END + 1
    /\ running_inventory[Pairs[NPairs]] < StartInv(Pairs[NPairs])

\* an event of the day loop is about to be appended
EmitPending ==
    \/ pc = "rail" /\ i < rail_events
    \/ pc = "ship" /\ i < ship_events
    \/ pc = "extra" /\ i < n_extra

\* the day loop is at work on the pair Pairs[k]
InDayLoop == pc \in {"plan", "guard", "split", "rail", "ship", "extra"}

\* C18 as stated: the state a pair's processing reads, the random stream
\* apart, was written by the processing of that pair alone; so the ledger
\* and the event counter an event is about to use were last written for the
\* same pair.
C18_NoSharedState ==
    (EmitPending /\ ~IsSeed(rows[Len(rows)])) =>
        KeyOf(rows[Len(rows)]) = Pairs[k]

\* C18 as amended: the processing of a pair writes that pair's entry of
\* running_inventory and no other, and leaves the designed net alone; the
\* event counter and the ledger are shared by all pairs: every event of any
\* pair takes the next number of the one counter and is appended to the one
\* ledger, so the numbers on the ledger are consecutive across the pairs.
C18_SharedCounterAndLedger ==
    [][InDayLoop =>
          /\ \A key \in Keys :
                running_inventory'[key] # running_inventory[key]
                   => key = Pairs[k]
          /\ mm62_pilbara_net' = mm62_pilbara_net
          /\ \/ rows' = rows /\ event_seq' = event_seq
             \/ /\ EmitPending
                /\ Len(rows') = Len(rows) + 1
                /\ SubSeq(rows', 1, Len(rows)) = rows
                /\ KeyOf(rows'[Len(rows')]) = Pairs[k]
                /\ SeqOf(rows'[Len(rows')]) = event_seq
                /\ SeqOf(rows'[Len(rows')]) = SeqOf(rows[Len(rows)]) + 1
                /\ event_seq' = event_seq + 1]_vars

\* the counter an event of one pair is about to use was left by another pair
C18_Witness ==
    /\ pc = "rail"
    /\ i = 0
    /\ d > RANGE_START
    /\ KeyOf(rows[Len(rows)]) # Pairs[k]
    /\ rows[Len(rows)].event_type = "adjustment"
    /\ event_seq = SeqOf(rows[Len(rows)]) + 1

\* the sum of the deltas of one kind of event of a day/pair
DayKindTonnes(key, day, kind) ==
    LedgerSum(key, LAMBDA e : /\ DateOf(e.event_time) = day
                              /\ e.event_type = kind)

\* C19: every rail_in event has a strictly positive tonnes_delta, every
\* ship_load event a tonnes_delta <= 0 that is the negation of its share of
\* the approved ship-load total; the rail_in deltas of a day/pair sum to
\* rail_in_total and its ship_load deltas to -ship_load_total.
C19_SignsAndSums ==
    [][/\ (pc = "rail" /\ i' = i + 1) =>
             /\ rows'[Len(rows')].event_type = "rail_in"
             /\ rows'[Len(rows')].tonnes_delta = rail_tonnes[i + 1]
             /\ rows'[Len(rows')].tonnes_delta > 0
       /\ (pc = "ship" /\ i' = i + 1) =>
             /\ rows'[Len(rows')].event_type = "ship_load"
             /\ rows'[Len(rows')].tonnes_delta = -ship_tonnes[i + 1]
             /\ rows'[Len(rows')].tonnes_delta <= 0
       /\ DayPairEmitted =>
             /\ DayKindTonnes(Pairs[k], d, "rail_in") = rail_in_total
             /\ DayKindTonnes(Pairs[k], d, "ship_load") = -ship_load_total
             /\ Len(rail_tonnes) = rail_events
             /\ Len(ship_tonnes) = ship_events]_vars

\* a day/pair with a skewed ship-load partition is on the ledger
C19_Witness ==
    /\ DayPairEmitted
    /\ Pairs[k] # FOCAL
    /\ ship_tonnes[1] > ship_tonnes[2]
    /\ DayKindTonnes(Pairs[k], d, "ship_load") = -40000
    /\ rows[Len(rows)].tonnes_delta = -ship_tonnes[ship_events]

----------------------------------------------------------------------------
(* One (day, pair) step of the first day under every event-count hint and  *)
(* every split fraction, from the state the seeding and design loops leave  *)

CountInit ==
    /\ stream = "counts"
    /\ pc = "plan"
    /\ rows = [n \in 1..NPairs |-> SeedEvent(RANGE_START, n, Pairs[n])]
    /\ event_seq = NPairs + 1
    /\ running_inventory = [key \in Keys |-> StartInv(key)]
    /\ mm62_pilbara_net =
          [n \in 1..NumDays |-> DesignedNet(RANGE_START + n - 1, 0)]
    /\ cumulative = 850000
    /\ d = RANGE_START
    /\ k \in 1..NPairs
    /\ InitLocals

CountNext ==
    \/ PlanDay
    \/ GuardShipLoad
    \/ SplitEvents
    \/ EmitRailIn
    \/ SplitShipLoad
    \/ EmitShipLoad
    \/ DrawExtras
    \/ EmitAdjustment

CountSpec == CountInit /\ [][CountNext]_vars

\* the number of events of a day/pair whose type is in `kinds`
DayKindCount(key, day, kinds) ==
    LET acc[n \in 0..Len(rows)] ==
            IF n = 0 THEN 0
            ELSE acc[n - 1]
                 + (IF /\ KeyOf(rows[n]) = key
                       /\ DateOf(rows[n].event_time) = day
                       /\ rows[n].event_type \in kinds
                    THEN 1 ELSE 0)
    IN  acc[Len(rows)]

\* C20: for every event-count hint in 8..24 and every split fraction in
\* [0.4, 0.7] a (day, pair) step emits at least 3 rail_in events, at least 2
\* ship_load events and 0 to 2 rehandle/adjustment events, and its rail_in
\* and ship_load counts add up to exactly n_events.
C20_EventCounts ==
    /\ pc \in {"rail", "ship", "extra"} =>
          /\ n_events \in 8..24
          /\ rail_events >= 3
          /\ ship_events >= 2
          /\ rail_events + ship_events = n_events
    /\ DayPairEmitted =>
          /\ DayKindCount(Pairs[k], d, {"rail_in"}) = rail_events
          /\ DayKindCount(Pairs[k], d, {"ship_load"}) = ship_events
          /\ DayKindCount(Pairs[k], d, {"rail_in", "ship_load"}) = n_events
          /\ DayKindCount(Pairs[k], d, {"rehandle", "adjustment"}) = n_extra
          /\ n_extra \in 0..2

\* the smallest hint with the smallest fraction: 3 rail_in, 5 ship_load
C20_Witness ==
    /\ DayPairEmitted
    /\ n_events = 8
    /\ DayKindCount(Pairs[k], d, {"rail_in"}) = 3
    /\ DayKindCount(Pairs[k], d, {"ship_load"}) = 5
    /\ n_extra = 2

----------------------------------------------------------------------------
(* C21 - C24 *)

\* every day-loop event of a pair dated before `day` is stamped before t
EarlierDaysBefore(key, day, t) ==
    \A n \in 1..Len(rows) :
        (/\ KeyOf(rows[n]) = key
         /\ ~IsSeed(rows[n])
         /\ DateOf(rows[n].event_time) < day) => rows[n].event_time < t

\* a day-loop event of the pair dated before `day` is on the ledger
HasEarlierDay(key, day) ==
    \E n \in 1..Len(rows) :
        /\ KeyOf(rows[n]) = key
        /\ ~IsSeed(rows[n])
        /\ DateOf(rows[n].event_time) < day

\* C21: every rail_in, ship_load, rehandle and adjustment event emitted
\* while day d is processed has its event_time between d 00:00 and d 23:59,
\* so it is strictly later than every event of the pair from an earlier day.
C21_EventTimeWithinDay ==
    [][(InDayLoop /\ Len(rows') = Len(rows) + 1) =>
          LET e == rows'[Len(rows')]
          IN  /\ e.event_type
                    \in {"rail_in", "ship_load", "rehandle", "adjustment"}
              /\ KeyOf(e) = Pairs[k]
              /\ e.event_time >= TimeOf(d, 0, 0)
              /\ e.event_time <= TimeOf(d, 23, 59)
              /\ DateOf(e.event_time) = d
              /\ e.event_id[2] = d
              /\ EarlierDaysBefore(Pairs[k], d, e.event_time)]_vars

\* inside one day the emission order is not the timestamp order: the event
\* just emitted is earlier than the first rail_in of the same day/pair, which
\* was stamped 23:59; an earlier day of the pair is on the ledger
C21_Witness ==
    /\ pc = "rail"
    /\ i = 2
    /\ d > RANGE_START
    /\ HasEarlierDay(Pairs[k], d)
    /\ KeyOf(rows[Len(rows) - 1]) = Pairs[k]
    /\ rows[Len(rows) - 1].event_time = TimeOf(d, 23, 59)
    /\ rows[Len(rows)].event_time < rows[Len(rows) - 1].event_time

\* the run of the generator: a single thread that takes its next step as
\* long as it has one
LiveSpec == Init /\ [][Next]_vars /\ WF_vars(Next)

\* the ledger of a finished run: one seed per pair and, for every day and
\* pair, the events of exactly one step (n_events rail_in and ship_load
\* events, 0 to 2 rehandle/adjustment events)
LedgerComplete ==
    /\ Len(rows) >= NPairs
    /\ \A n \in 1..NPairs : IsSeed(rows[n]) /\ KeyOf(rows[n]) = Pairs[n]
    /\ \A key \in Keys :
          /\ SeedCount(key) = 1
          /\ \A day \in ALL_DATES :
                /\ DayKindCount(key, day, {"rail_in", "ship_load"})
                      \in NEventsDraws(stream)
                /\ DayKindCount(key, day, {"rehandle", "adjustment"})
                      \in 0..2
          /\ CountFrom(key, RANGE_END + 1) = 0

\* C22: the generator terminates: it seeds every pair once, processes every
\* (day, site, product) combination of the calendar range exactly once, and
\* finishes with the ledger complete.
C22_Terminates == <>(pc = "done" /\ LedgerComplete)

C22_Witness ==
    /\ pc = "done"
    /\ LedgerComplete
    /\ d = RANGE_END
    /\ k = NPairs
    /\ Len(rows) > NPairs + NumDays * NPairs * 8

\* the pair has its initial_inventory event on the ledger
Seeded(key) == pc # "seed" \/ k > PairIndex(key)

\* C23: for every pair the running sum of tonnes_delta in emission order,
\* from its seed event on, is at least MIN_INVENTORY_BUFFER after every
\* event, in the middle of a day as well as at its end.  (Every prefix of the
\* emission order is the ledger of some state.)
C23_EmissionPrefixAtLeastBuffer ==
    \A key \in Keys :
        Seeded(key) => CumTonnes(key) >= MIN_INVENTORY_BUFFER

\* in the middle of a step: the last ship_load of a capped day has brought
\* the running sum of the pair down to the buffer exactly
C23_Witness ==
    /\ pc = "ship"
    /\ i = ship_events
    /\ d > RANGE_START
    /\ ship_load_total > 0
    /\ rows[Len(rows)].event_type = "ship_load"
    /\ CumTonnes(Pairs[k]) = MIN_INVENTORY_BUFFER

\* max_shippable of the step under way
MaxShippable == current_inventory + rail_in_total - MIN_INVENTORY_BUFFER

\* C24: in every reachable state of the reference configuration
\* max_shippable is at least 10,000, so the approved ship-load total is
\* strictly positive on every day for every pair and the guard never takes
\* its degrade-to-zero branch.
C24_GuardNeverDegrades ==
    [][pc = "guard" =>
          /\ current_inventory >= MIN_INVENTORY_BUFFER
          /\ rail_in_total >= 10000
          /\ ship_load_total >= (IF Pairs[k] = FOCAL THEN 20000 ELSE 10000)
          /\ MaxShippable >= 10000
          /\ ship_load_total' \in {ship_load_total, MaxShippable}
          /\ ship_load_total' >= 10000]_vars

\* the tightest case: inventory and rail-in both at 10,000, the ship-load
\* capped to a max_shippable of exactly 10,000
C24_Witness ==
    /\ pc = "split"
    /\ current_inventory = MIN_INVENTORY_BUFFER
    /\ rail_in_total = 10000
    /\ MaxShippable = 10000
    /\ ship_load_total = MaxShippable

====
